---- MODULE Spec2Model ----
(***************************************************************************)
(* Model of src/src/components/ObjectDetector.jsx: the detection loop of   *)
(* ObjectDetector (lines 11-123, 142-171, 276-300, 384-390; Spec, FairSpec *)
(* and SpecPace), its bounding-box overlay (lines 190-237; SpecOverlay)    *)
(* and the TransferLearner (lines 454-551; SpecLearner).                   *)
(*                                                                         *)
(* One state of the model is one moment between two browser tasks.  Every  *)
(* handler runs to completion, and a handler that changes React state is   *)
(* followed, in the same step, by the re-render it causes: the cleanup of  *)
(* the "trigger detection" effect and the effect itself.  The only place a *)
(* handler is suspended is the `await model.detect(...)' of line 80: the   *)
(* part of detect before it is one step, the part after it another.        *)
(*                                                                         *)
(* requestAnimationFrame callbacks run in batches: at an animation frame   *)
(* the browser takes the callbacks requested so far and runs them in the   *)
(* order they were requested; a callback requested meanwhile waits for the *)
(* next frame.  No event handler and no timer runs inside a batch.         *)
(*                                                                         *)
(* Time is kept as ages: the code only uses the differences                *)
(* now - lastFrameTime and now - lastFpsTime, so the model stores these    *)
(* differences (saturated above the thresholds they are compared with).    *)
(***************************************************************************)
EXTENDS Integers, Sequences, FiniteSets, TLC

(* ---------------------------- program constants -------------------------- *)

\* line 52: `if (timeSinceLastFrame < 41)': the minimum frame interval in ms.
FrameIntervalMs == 41
\* line 49: "FPS Cap: Max 24 FPS": the configured cap R in Hz.
FrameCapHz == 24
\* line 73: `now - lastFpsTime >= 1000': the throughput window in ms.
FpsWindowMs == 1000
\* line 96: `setTimeout(detect, 500)': the delay of the one-shot image run.
ImageDelayMs == 500
\* line 52: "1000ms / 24fps": the milliseconds of one second.
MsPerSecond == 1000

(* --------------------------------- bounds -------------------------------- *)

\* Callbacks and inferences that may exist at once (pending frames, pending
\* timeouts and outstanding inferences together).  A user action that would
\* start one more is not taken beyond it.
MaxLoops == 2
\* Ages above this value are stored as this value: it is above every
\* threshold an age of a frame is compared with (41 in the code, 1000/24 in
\* the claim about the cap).
MaxFrameAge == 42

(* --------------------------------- values -------------------------------- *)

Modes == {"live", "upload"}
\* mediaFile: null, or { type: 'image' | 'video', url } (line 16).
MediaTypes == {"none", "image", "video"}
\* settings.minConfidence in percent (line 23 and the slider of line 386);
\* maxObjects and iouThreshold are not changed by anything the loop depends
\* on differently, so one field stands for the settings object.
Confidences == {50, 55}
\* What model.detect resolves with: a list of detections.
Detections == {<<>>, <<"object">>}

\* A detect callback is the closure created by useCallback (lines 46-90): it
\* is determined by the values of its dependencies at the render that
\* created it, and `detect' inside it names the closure itself.
Closures ==
  [isPaused : BOOLEAN, model : BOOLEAN, mode : Modes,
   mediaFile : MediaTypes, settings : Confidences]

Min(a, b) == IF a < b THEN a ELSE b
Max(a, b) == IF a > b THEN a ELSE b

\* s without its k-th element.
RemoveAt(s, k) == [i \in 1..(Len(s) - 1) |-> IF i < k THEN s[i] ELSE s[i + 1]]

VARIABLES
  mounted,            \* the component is mounted (App.jsx line 60)
  model,              \* useState(null), line 13: TRUE once loaded
  mode,               \* line 15
  mediaFile,          \* line 16 (its type, or "none" for null)
  predictions,        \* line 17
  fps,                \* line 18
  isPaused,           \* line 19
  settings,           \* line 22 (minConfidence)
  webcamReady,        \* webcamRef.current.video.readyState === 4
  mediaPaused,        \* mediaRef.current.paused of an uploaded video
  mediaReady,         \* mediaRef.current.readyState >= 2 of an uploaded video
  requestRef,         \* line 31: position in frames of the request it names,
                      \* 0 when the id it holds is not pending (or undefined)
  frames,             \* pending requestAnimationFrame callbacks, oldest first
  running,            \* callbacks of the animation frame in progress not yet run
  timeouts,           \* pending setTimeout callbacks, oldest first
  inflight,           \* model.detect calls awaited, in the order issued
  timeSinceLastFrame, \* now - fpsRef.current.lastFrameTime (line 51)
  timeSinceLastFps,   \* now - fpsRef.current.lastFpsTime (line 73)
  frameCount,         \* fpsRef.current.frameCount
  \* history variables: they record what happened and guard nothing
  timeSinceLastIssue, \* time since the last model.detect call, -1 if none
  imageInferred,      \* a model.detect was issued on the mounted image
  lastEvent,          \* the last event of a model.detect call
  lastResolved,       \* when the last event is a resolution: what the call
                      \* gave, and whether the user paused while it was
                      \* awaited and the detector is still paused
  \* the bounding-box overlay of ObjectDetector (lines 190-237)
  element,            \* line 193: the element the boxes are laid over, with
                      \* its natural size and its parent's client size
  rendered,           \* the output of the last render of the overlay, with
                      \* the element it was computed from
  \* TransferLearner (lines 454-551)
  tlMounted,          \* the TransferLearner is mounted (App.jsx line 67)
  net,                \* line 455: TRUE once mobilenet is loaded
  classifier,         \* line 456: TRUE once the KNN classifier is created
  classes,            \* line 458: the declared classes, each with id and count
  store,              \* the classifier's exemplars: for each class id the
                      \* feature vectors it holds, each as the number of
                      \* times it has been released (0: alive)
  result,             \* line 463
  viewMode,           \* line 465
  isTraining,         \* line 464
  trainingTimeouts,   \* pending setTimeout callbacks of line 503
  tlWebcamReady,      \* webcamRef.current.video.readyState === 4 (line 486)
  tlRequestRef,       \* line 468, as requestRef above
  tlFrames,           \* pending requestAnimationFrame(predict) callbacks
  tlInflight,         \* classifier.predictClass calls awaited, with the
                      \* tensors of their cycle
  \* history variables of the TransferLearner
  lastCycle,          \* the tensors of the prediction cycle that ended last
  lastAdd,            \* the tensors of the last addExample
  tlEvent             \* the last event of the TransferLearner

stateVars == <<mounted, model, mode, mediaFile, predictions, fps, isPaused, settings>>
elemVars == <<webcamReady, mediaPaused, mediaReady>>
loopVars == <<requestRef, frames, running, timeouts, inflight>>
fpsVars == <<timeSinceLastFrame, timeSinceLastFps, frameCount>>
histVars == <<timeSinceLastIssue, imageInferred, lastEvent, lastResolved>>
detectorVars == <<stateVars, elemVars, loopVars, fpsVars, histVars>>
overlayVars == <<element, rendered>>
learnerVars == <<tlMounted, net, classifier, classes, store, result, viewMode,
                 isTraining, trainingTimeouts, tlWebcamReady, tlRequestRef,
                 tlFrames, tlInflight, lastCycle, lastAdd, tlEvent>>
vars == <<detectorVars, overlayVars, learnerVars>>

(* ------------------------------- the render ------------------------------ *)

\* The detect callback of a render with the given dependency values
\* (useCallback, lines 46 and 90).
DetectOf(p, m, md, mf, s) ==
  [isPaused |-> p, model |-> m, mode |-> md, mediaFile |-> mf, settings |-> s]

\* Lines 142-149: the Webcam (and its video) exists while mode is 'live'.
WebcamVideo == mounted /\ mode = "live"
\* Lines 152-171: mediaRef.current is the uploaded <video> or <img>, or null.
MediaEl == IF mounted /\ mode = "upload" /\ mediaFile # "none" THEN mediaFile ELSE "null"

\* Loops in existence, bounded by MaxLoops.
LoopCount == Len(frames) + Len(running) + Len(timeouts) + Len(inflight)

(* ------------------------------ Init (mount) ----------------------------- *)

\* The state after the first render and its effects: the useState/useRef
\* initial values (lines 13-32) and the first run of the effect of lines
\* 93-101, which requests a frame for the first detect callback.
\* The last event of a model.detect call is not a resolution.
NoneResolved == [results |-> <<>>, atPause |-> FALSE]

\* The calls awaited when the paused flag becomes p: they are the ones in
\* flight when the user paused, until the detector resumes.
AtPause(q, p) == [j \in 1..Len(q) |-> [q[j] EXCEPT !.atPause = p]]

InitDetector ==
  /\ mounted = TRUE
  /\ model = FALSE
  /\ mode = "live"
  /\ mediaFile = "none"
  /\ predictions = <<>>
  /\ fps = 0
  /\ isPaused = FALSE
  /\ settings = 50
  /\ webcamReady = FALSE
  /\ mediaPaused = TRUE
  /\ mediaReady = FALSE
  /\ frames = <<DetectOf(FALSE, FALSE, "live", "none", 50)>>
  /\ requestRef = 1
  /\ running = <<>>
  /\ timeouts = <<>>
  /\ inflight = <<>>
  /\ timeSinceLastFrame = 0
  /\ timeSinceLastFps = 0
  /\ frameCount = 0
  /\ timeSinceLastIssue = -1
  /\ imageInferred = FALSE
  /\ lastEvent = "none"
  /\ lastResolved = NoneResolved

(* ------------------------- the scheduling effect ------------------------- *)

\* Line 100, the cleanup: cancelAnimationFrame(requestRef.current) removes
\* the request requestRef names, if it is still pending.
CancelledFrames == IF requestRef = 0 THEN frames ELSE RemoveAt(frames, requestRef)

\* Loops the cleanup of line 100 leaves in existence: a handler that runs
\* the effect again is taken while they are fewer than MaxLoops.
LoopsKept == Len(CancelledFrames) + Len(running) + Len(timeouts) + Len(inflight)

\* Lines 93-101 after a render whose detect callback is c: the cleanup of the
\* previous effect, then the effect.  The timeout id is not kept.
RunEffect(c) ==
  IF c.mode = "upload" /\ c.mediaFile = "image" /\ c.model
  THEN /\ timeouts' = Append(timeouts, [cb |-> c, delay |-> ImageDelayMs])
       /\ frames' = CancelledFrames
       /\ requestRef' = 0
  ELSE IF ~c.isPaused
  THEN /\ frames' = Append(CancelledFrames, c)
       /\ requestRef' = Len(CancelledFrames) + 1
       /\ UNCHANGED timeouts
  ELSE /\ frames' = CancelledFrames
       /\ requestRef' = 0
       /\ UNCHANGED timeouts

(* --------------------------------- detect -------------------------------- *)

\* Lines 58-68: the element detect reads, chosen from the mode and mediaFile
\* the callback captured and from the refs as they are when it runs.  An
\* <img> has neither `paused' nor `readyState' (both undefined).
SelectSource(c) ==
  IF c.mode = "live" /\ WebcamVideo /\ webcamReady THEN "webcam"
  ELSE IF /\ c.mode = "upload" /\ MediaEl # "null" /\ c.mediaFile = "video"
          /\ ~(MediaEl = "video" /\ mediaPaused)
       THEN (IF MediaEl = "video" /\ mediaReady THEN "video" ELSE "null")
  ELSE IF c.mode = "upload" /\ MediaEl # "null" /\ c.mediaFile = "image" THEN MediaEl
  ELSE "null"

\* Line 87: the modes in which detect requests the next frame.
Rearms(c) == c.mode = "live" \/ (c.mode = "upload" /\ c.mediaFile = "video")

\* Lines 52-55 without line 53: detect returns and requests no frame.
ThrottleWithoutRearm(c) ==
  /\ c \in Closures
  /\ UNCHANGED <<frames, requestRef, inflight, fpsVars, fps, timeSinceLastIssue,
                 imageInferred, lastEvent, lastResolved>>

\* Lines 52-55: less than the frame interval since lastFrameTime; detect
\* requests the next frame and returns.
Throttle(c) ==
  /\ frames' = Append(frames, c) /\ requestRef' = Len(frames) + 1
  /\ UNCHANGED <<inflight, fpsVars, fps, timeSinceLastIssue, imageInferred,
                 lastEvent, lastResolved>>

\* Lines 46-80: detect callback c runs up to its await or its return.
Detect(c) ==
  IF c.isPaused \/ ~c.model
  THEN UNCHANGED <<frames, requestRef, inflight, fpsVars, fps, timeSinceLastIssue,
                   imageInferred, lastEvent, lastResolved>>
  ELSE IF timeSinceLastFrame < FrameIntervalMs
  THEN Throttle(c)
  ELSE /\ timeSinceLastFrame' = 0
       /\ IF SelectSource(c) # "null"
          THEN /\ IF timeSinceLastFps >= FpsWindowMs
                  THEN /\ fps' = IF mounted THEN frameCount + 1 ELSE fps
                       /\ frameCount' = 0
                       /\ timeSinceLastFps' = 0
                  ELSE /\ frameCount' = frameCount + 1
                       /\ UNCHANGED <<fps, timeSinceLastFps>>
               /\ inflight' = Append(inflight,
                     [cb |-> c, videoEl |-> SelectSource(c),
                      preSwitch |-> FALSE, overtaken |-> FALSE,
                      atPause |-> FALSE])
               /\ UNCHANGED <<frames, requestRef>>
               /\ timeSinceLastIssue' = 0
               /\ imageInferred' = (imageInferred \/ SelectSource(c) = "image")
               /\ lastEvent' = "issued"
               /\ lastResolved' = NoneResolved
          ELSE /\ IF Rearms(c)
                  THEN frames' = Append(frames, c) /\ requestRef' = Len(frames) + 1
                  ELSE UNCHANGED <<frames, requestRef>>
               /\ UNCHANGED <<inflight, timeSinceLastFps, frameCount, fps,
                              timeSinceLastIssue, imageInferred, lastEvent, lastResolved>>

\* An animation frame begins: the callbacks requested so far form its batch.
\* The id requestRef holds then names a callback of the batch, which no
\* cleanup can cancel before it has run.
BeginFrame ==
  /\ UNCHANGED <<overlayVars, learnerVars>>
  /\ running = <<>>
  /\ frames # <<>>
  /\ running' = frames
  /\ frames' = <<>>
  /\ requestRef' = 0
  /\ UNCHANGED <<stateVars, elemVars, timeouts, inflight, fpsVars, histVars>>

\* The next callback of the batch runs.
Tick ==
  /\ UNCHANGED <<overlayVars, learnerVars>>
  /\ running # <<>>
  /\ running' = Tail(running)
  /\ Detect(Head(running))
  /\ UNCHANGED <<mounted, model, mode, mediaFile, predictions, isPaused, settings,
                 elemVars, timeouts>>

\* The 500 ms of the oldest pending timeout have passed: it runs detect.
Timeout ==
  /\ UNCHANGED <<overlayVars, learnerVars>>
  /\ running = <<>>
  /\ timeouts # <<>>
  /\ Head(timeouts).delay = 0
  /\ timeouts' = Tail(timeouts)
  /\ Detect(Head(timeouts).cb)
  /\ UNCHANGED <<mounted, model, mode, mediaFile, predictions, isPaused, settings,
                 elemVars, running>>

\* Line 81 skipped while the detector is paused: the result is discarded.
AppliedUnlessPaused(ok, results) ==
  IF ok /\ mounted /\ ~isPaused THEN results ELSE predictions

\* Line 81: setPredictions(results) when model.detect resolved; on an
\* unmounted component it does nothing.
Applied(ok, results) == IF ok /\ mounted THEN results ELSE predictions

\* Lines 80-89 after the await: inflight[i] resolves with results (ok) or
\* rejects.  setPredictions on an unmounted component does nothing.
Complete(i, ok, results) ==
  LET r == inflight[i] IN
  /\ UNCHANGED <<overlayVars, learnerVars>>
  /\ inflight' = IF ok
                 THEN [j \in 1..(Len(inflight) - 1) |->
                         IF j < i THEN [inflight[j] EXCEPT !.overtaken = TRUE]
                         ELSE inflight[j + 1]]
                 ELSE RemoveAt(inflight, i)
  /\ predictions' = Applied(ok, results)
  /\ IF Rearms(r.cb)
     THEN frames' = Append(frames, r.cb) /\ requestRef' = Len(frames) + 1
     ELSE UNCHANGED <<frames, requestRef>>
  /\ lastEvent' = IF ok THEN "resolved" ELSE "rejected"
  /\ lastResolved' = IF ok
                      THEN [results |-> results, atPause |-> r.atPause /\ isPaused]
                      ELSE NoneResolved
  /\ UNCHANGED <<mounted, model, mode, mediaFile, fps, isPaused, settings,
                 elemVars, running, timeouts, fpsVars, timeSinceLastIssue, imageInferred>>

Resolve == \E i \in 1..Len(inflight), results \in Detections : Complete(i, TRUE, results)

Reject == \E i \in 1..Len(inflight) : Complete(i, FALSE, <<>>)

(* ------------------------------ user actions ----------------------------- *)

\* A source switch happened: the inferences outstanding now were issued
\* before it.
BeforeSwitch(q) == [j \in 1..Len(q) |-> [q[j] EXCEPT !.preSwitch = TRUE]]

\* Lines 295-300: the pause button.
TogglePause ==
  /\ UNCHANGED <<overlayVars, learnerVars>>
  /\ mounted
  /\ running = <<>>
  /\ LoopsKept < MaxLoops
  /\ isPaused' = ~isPaused
  /\ inflight' = AtPause(inflight, ~isPaused)
  /\ RunEffect(DetectOf(~isPaused, model, mode, mediaFile, settings))
  /\ UNCHANGED <<mounted, model, mode, mediaFile, predictions, fps, settings,
                 elemVars, running, fpsVars, histVars>>

\* Lines 276-280: the mode button.  The element of the mode that is left is
\* unmounted, the one of the new mode is mounted anew.
ToggleMode ==
  /\ UNCHANGED <<overlayVars, learnerVars>>
  /\ mounted
  /\ running = <<>>
  /\ LoopsKept < MaxLoops
  /\ mode' = IF mode = "live" THEN "upload" ELSE "live"
  /\ predictions' = <<>>
  /\ imageInferred' = FALSE
  /\ inflight' = BeforeSwitch(inflight)
  /\ webcamReady' = FALSE /\ mediaPaused' = TRUE /\ mediaReady' = FALSE
  /\ RunEffect(DetectOf(isPaused, model, mode', mediaFile, settings))
  /\ UNCHANGED <<mounted, model, mediaFile, fps, isPaused, settings, fpsVars,
                 running, timeSinceLastIssue, lastEvent, lastResolved>>

\* Lines 104-113: a file of type t is dropped on the upload overlay, which
\* is rendered only in upload mode without a media file (line 174).
OnDrop(t) ==
  /\ UNCHANGED <<overlayVars, learnerVars>>
  /\ mounted
  /\ running = <<>>
  /\ LoopsKept < MaxLoops
  /\ mode = "upload" /\ mediaFile = "none"
  /\ mediaFile' = t
  /\ mode' = "upload"
  /\ predictions' = <<>>
  /\ imageInferred' = FALSE
  /\ inflight' = BeforeSwitch(inflight)
  /\ webcamReady' = FALSE /\ mediaPaused' = TRUE /\ mediaReady' = FALSE
  /\ RunEffect(DetectOf(isPaused, model, "upload", t, settings))
  /\ UNCHANGED <<mounted, model, fps, isPaused, settings, fpsVars,
                 running, timeSinceLastIssue, lastEvent, lastResolved>>

\* Lines 118-123 with setIsPaused(false) added: clearing the media resumes.
ClearMediaResuming ==
  /\ UNCHANGED <<overlayVars, learnerVars>>
  /\ mounted
  /\ running = <<>>
  /\ LoopsKept < MaxLoops
  /\ mode = "upload" /\ mediaFile # "none"
  /\ mediaFile' = "none"
  /\ mode' = "live"
  /\ isPaused' = FALSE
  /\ predictions' = <<>>
  /\ imageInferred' = FALSE
  /\ inflight' = BeforeSwitch(inflight)
  /\ webcamReady' = FALSE /\ mediaPaused' = TRUE /\ mediaReady' = FALSE
  /\ RunEffect(DetectOf(FALSE, model, "live", "none", settings))
  /\ UNCHANGED <<mounted, model, fps, settings, fpsVars,
                 running, timeSinceLastIssue, lastEvent, lastResolved>>

\* Lines 118-123: the clear button, rendered in upload mode with a media
\* file (line 287).
ClearMedia ==
  /\ UNCHANGED <<overlayVars, learnerVars>>
  /\ mounted
  /\ running = <<>>
  /\ LoopsKept < MaxLoops
  /\ mode = "upload" /\ mediaFile # "none"
  /\ mediaFile' = "none"
  /\ mode' = "live"
  /\ predictions' = <<>>
  /\ imageInferred' = FALSE
  /\ inflight' = BeforeSwitch(inflight)
  /\ webcamReady' = FALSE /\ mediaPaused' = TRUE /\ mediaReady' = FALSE
  /\ RunEffect(DetectOf(isPaused, model, "live", "none", settings))
  /\ UNCHANGED <<mounted, model, fps, isPaused, settings, fpsVars,
                 running, timeSinceLastIssue, lastEvent, lastResolved>>

\* Lines 384-390: the confidence slider sets a new settings object.
SetMinConfidence(v) ==
  /\ UNCHANGED <<overlayVars, learnerVars>>
  /\ mounted
  /\ running = <<>>
  /\ LoopsKept < MaxLoops
  /\ v # settings
  /\ settings' = v
  /\ RunEffect(DetectOf(isPaused, model, mode, mediaFile, v))
  /\ UNCHANGED <<mounted, model, mode, mediaFile, predictions, fps, isPaused,
                 elemVars, running, inflight, fpsVars, histVars>>

\* Lines 35-43: cocoSsd.load() resolves; setModel on an unmounted component
\* does nothing.
LoadModel ==
  /\ UNCHANGED <<overlayVars, learnerVars>>
  /\ mounted
  /\ running = <<>>
  /\ ~model
  /\ model' = TRUE
  /\ RunEffect(DetectOf(isPaused, TRUE, mode, mediaFile, settings))
  /\ UNCHANGED <<mounted, mode, mediaFile, predictions, fps, isPaused, settings,
                 elemVars, running, inflight, fpsVars, histVars>>

\* App.jsx lines 52-72: the tab is left and the component unmounted: the
\* cleanup of line 100 runs and the refs of its elements become null.
Unmount ==
  /\ UNCHANGED <<overlayVars, learnerVars>>
  /\ mounted
  /\ running = <<>>
  /\ mounted' = FALSE
  /\ frames' = CancelledFrames
  /\ requestRef' = 0
  /\ webcamReady' = FALSE /\ mediaPaused' = TRUE /\ mediaReady' = FALSE
  /\ UNCHANGED <<model, mode, mediaFile, predictions, fps, isPaused, settings,
                 running, timeouts, inflight, fpsVars, histVars>>

(* ------------------------------ environment ------------------------------ *)

\* Line 60: the webcam video reaches readyState 4.
WebcamReady ==
  /\ UNCHANGED <<overlayVars, learnerVars>>
  /\ running = <<>>
  /\ WebcamVideo /\ ~webcamReady
  /\ webcamReady' = TRUE
  /\ UNCHANGED <<stateVars, mediaPaused, mediaReady, loopVars, fpsVars, histVars>>

\* Line 63: the uploaded video reaches readyState >= 2.
MediaLoaded ==
  /\ UNCHANGED <<overlayVars, learnerVars>>
  /\ running = <<>>
  /\ MediaEl = "video" /\ ~mediaReady
  /\ mediaReady' = TRUE
  /\ UNCHANGED <<stateVars, webcamReady, mediaPaused, loopVars, fpsVars, histVars>>

\* Lines 158-161: the uploaded video starts to play (autoPlay); its play
\* event calls setIsPaused(false), which re-renders only if it was paused.
MediaPlay ==
  /\ UNCHANGED <<overlayVars, learnerVars>>
  /\ running = <<>>
  /\ MediaEl = "video" /\ mediaReady /\ mediaPaused
  /\ mediaPaused' = FALSE
  /\ IF isPaused
     THEN /\ LoopsKept < MaxLoops
          /\ isPaused' = FALSE
          /\ inflight' = AtPause(inflight, FALSE)
          /\ RunEffect(DetectOf(FALSE, model, mode, mediaFile, settings))
     ELSE UNCHANGED <<isPaused, requestRef, frames, timeouts, inflight>>
  /\ UNCHANGED <<mounted, model, mode, mediaFile, predictions, fps, settings,
                 webcamReady, mediaReady, running, fpsVars, histVars>>

\* Line 62: the browser pauses the uploaded video.
MediaPause ==
  /\ UNCHANGED <<overlayVars, learnerVars>>
  /\ running = <<>>
  /\ MediaEl = "video" /\ ~mediaPaused
  /\ mediaPaused' = TRUE
  /\ UNCHANGED <<stateVars, webcamReady, mediaReady, loopVars, fpsVars, histVars>>

\* Line 50: performance.now() has grown by d ms.
Advance(d) ==
  /\ UNCHANGED <<overlayVars, learnerVars>>
  /\ running = <<>>
  /\ timeSinceLastFrame' = Min(timeSinceLastFrame + d, MaxFrameAge)
  /\ timeSinceLastFps' = Min(timeSinceLastFps + d, FpsWindowMs)
  /\ timeSinceLastIssue' = IF timeSinceLastIssue < 0 THEN timeSinceLastIssue
                           ELSE Min(timeSinceLastIssue + d, MaxFrameAge)
  /\ timeouts' = [j \in 1..Len(timeouts) |->
                    [timeouts[j] EXCEPT !.delay = Max(timeouts[j].delay - d, 0)]]
  /\ UNCHANGED <<stateVars, elemVars, requestRef, frames, running, inflight,
                 frameCount, imageInferred, lastEvent, lastResolved>>

(* -------------------------- bounding-box overlay ------------------------- *)

\* Line 223: the safety margin of the clamping, in px.
MARGIN == 10
\* Line 237: `top < 40': a box nearer to the top has its label inside it.
NearTopPx == 40

\* Detections in one list of the overlay model.
MaxDetections == 2

\* <<videoWidth, videoHeight>> (naturalWidth/naturalHeight of an <img>), 0
\* while the metadata is not loaded, and <<clientWidth, clientHeight>> of the
\* parent, 0 while it is not laid out.
NaturalSizes == {<<0, 0>>, <<640, 0>>, <<0, 480>>, <<640, 480>>, <<480, 640>>}
ContainerSizes == {<<0, 0>>, <<800, 0>>, <<0, 450>>, <<800, 450>>, <<450, 800>>}
\* pred.bbox = [x, y, width, height] in px of the source.
Boxes == {<<100, 100, 50, 50>>, <<0, 0, 640, 480>>, <<600, 10, 40, 40>>}

\* Line 193 yields undefined/null: no element.
NoElement ==
  [present |-> FALSE, videoWidth |-> 0, videoHeight |-> 0,
   hasContainer |-> FALSE, clientWidth |-> 0, clientHeight |-> 0]

\* An element of natural size n: without a parent, or in a parent of client
\* size c.
Detached(n) ==
  [present |-> TRUE, videoWidth |-> n[1], videoHeight |-> n[2],
   hasContainer |-> FALSE, clientWidth |-> 0, clientHeight |-> 0]
Attached(n, c) ==
  [present |-> TRUE, videoWidth |-> n[1], videoHeight |-> n[2],
   hasContainer |-> TRUE, clientWidth |-> c[1], clientHeight |-> c[2]]

Elements ==
  {NoElement}
  \cup {Detached(n) : n \in NaturalSizes}
  \cup {Attached(n, c) : n \in NaturalSizes, c \in ContainerSizes}

\* The detection lists of the overlay model: up to MaxDetections boxes.
BoxLists ==
  UNION {[1..n -> [bbox : Boxes]] : n \in 0..MaxDetections}

\* `return null' of lines 194 and 200: nothing is rendered for the detection.
NoBox ==
  [mapped |-> FALSE, den |-> 1, scale |-> 0, displayedWidth |-> 0,
   displayedHeight |-> 0, offsetX |-> 0, offsetY |-> 0, left |-> 0, top |-> 0,
   width |-> 0, height |-> 0, maxWidth |-> 0, maxHeight |-> 0,
   isNearTop |-> FALSE]

\* Line 205 with Math.min for Math.max: the source is fitted inside the
\* container ("contain") instead of covering it.
ScaleByWidthContain(el) ==
  el.clientWidth * el.videoHeight <= el.clientHeight * el.videoWidth

\* Line 205: Math.max returns its first argument, containerWidth /
\* videoWidth, when it is not below containerHeight / videoHeight.
ScaleByWidth(el) ==
  el.clientWidth * el.videoHeight >= el.clientHeight * el.videoWidth

\* Lines 224-225 without the size of the box in the upper limit:
\* Math.max(MARGIN, Math.min(raw, container - MARGIN)).
ClampIgnoringSize(raw, size, container, den) ==
  Max(MARGIN * den, Min(raw, container * den - MARGIN * den))

\* Lines 224-225: Math.max(MARGIN, Math.min(raw, container - size - MARGIN)),
\* for lengths in units of 1/den px.
Clamp(raw, size, container, den) ==
  Max(MARGIN * den, Min(raw, container * den - size - MARGIN * den))

\* Lines 232-233 without the margin: container - start.
CapWithoutMargin(start, container, den) == container * den - start

\* Lines 232-233: container - start - MARGIN, the room between the clamped
\* left (top) and the far margin, for lengths in units of 1/den px.
Cap(start, container, den) == container * den - start - MARGIN * den

\* Lines 193-237 for one detection with bbox b over element el.  The code
\* computes in floating point; here every length is an exact fraction, kept
\* as its numerator over the common denominator den = 2 * (the source
\* dimension scale divides by): scale = containerWidth / videoWidth or
\* containerHeight / videoHeight, and the offsets halve once more.
MapBox(el, b) ==
  IF ~el.present THEN NoBox
  ELSE IF el.videoWidth = 0 \/ el.videoHeight = 0 \/ ~el.hasContainer THEN NoBox
  ELSE
    LET videoWidth == el.videoWidth
        videoHeight == el.videoHeight
        containerWidth == el.clientWidth
        containerHeight == el.clientHeight
        den == 2 * (IF ScaleByWidth(el) THEN videoWidth ELSE videoHeight)
        scale == 2 * (IF ScaleByWidth(el) THEN containerWidth ELSE containerHeight)
        displayedWidth == videoWidth * scale
        displayedHeight == videoHeight * scale
        offsetX == (containerWidth * den - displayedWidth) \div 2
        offsetY == (containerHeight * den - displayedHeight) \div 2
        rawLeft == b[1] * scale + offsetX
        rawTop == b[2] * scale + offsetY
        rawWidth == b[3] * scale
        rawHeight == b[4] * scale
        left == Clamp(rawLeft, rawWidth, containerWidth, den)
        top == Clamp(rawTop, rawHeight, containerHeight, den)
    IN [mapped |-> TRUE, den |-> den, scale |-> scale,
        displayedWidth |-> displayedWidth, displayedHeight |-> displayedHeight,
        offsetX |-> offsetX, offsetY |-> offsetY,
        left |-> left, top |-> top, width |-> rawWidth, height |-> rawHeight,
        maxWidth |-> Cap(left, containerWidth, den),
        maxHeight |-> Cap(top, containerHeight, den),
        isNearTop |-> top < NearTopPx * den]

\* Line 191: predictions.map(...) of one render, with the element it read.
RenderOverlay(ps, el) ==
  [element |-> el, boxes |-> [i \in 1..Len(ps) |-> MapBox(el, ps[i].bbox)]]

\* The overlay while the detector's loop is what is modelled: no element.
NoOverlay ==
  /\ element = NoElement
  /\ rendered = RenderOverlay(<<>>, NoElement)

\* The refs, the metadata of the source or the layout change: the element
\* becomes e.  Nothing is rendered by that.
Layout(e) ==
  /\ e # element
  /\ element' = e
  /\ UNCHANGED <<detectorVars, rendered, learnerVars>>

\* Line 81: setPredictions(ps), and the render it causes.
SetPredictions(ps) ==
  /\ ps # predictions
  /\ predictions' = ps
  /\ rendered' = RenderOverlay(ps, element)
  /\ UNCHANGED <<mounted, model, mode, mediaFile, fps, isPaused, settings,
                 elemVars, loopVars, fpsVars, histVars, element, learnerVars>>

\* A render caused by another state change (setFps, a setting): the same
\* detection list is mapped again.
Rerender ==
  /\ rendered' = RenderOverlay(predictions, element)
  /\ UNCHANGED <<detectorVars, element, learnerVars>>

(* ---------------------------- TransferLearner --------------------------- *)

\* Lines 458-462: the classes declared at mount.
InitialClasses == 3

\* Classes that can be declared (the "Add New Class" button is not used
\* beyond it) and exemplars the store can hold at once (the "Train" buttons
\* are not used beyond it).
MaxClasses == 4
MaxExamples == 2

ViewModes == {"train", "predict"}
\* result: null, or what predictClass resolved with.
Results == {"null", "prediction"}

\* A predict callback is the closure of useCallback (lines 508-524), with the
\* classifier and the net of the render that created it.
PredictOf(c, n) == [classifier |-> c, net |-> n]

\* A tensor is kept as the number of times it has been disposed: 0 while it
\* is alive; NotAcquired for one that was never created.
NotAcquired == -1

NoCycle == [outcome |-> "none", img |-> NotAcquired, activation |-> NotAcquired]
NoAdd == [stored |-> FALSE, img |-> NotAcquired, activation |-> NotAcquired]

ClassIds == 0..(MaxClasses - 1)

\* Lines 458-462: the list of classes of the first render.
DeclaredAtMount == [k \in 1..InitialClasses |-> [id |-> k - 1, count |-> 0]]

\* knnClassifier.create(): no exemplar under any label.
EmptyStore == [c \in ClassIds |-> <<>>]

RECURSIVE SumTo(_, _)
SumTo(f, n) == IF n < 0 THEN 0 ELSE Len(f[n]) + SumTo(f, n - 1)
\* The exemplars the store holds.
NumExamples == SumTo(store, MaxClasses - 1)

\* Line 509: classifier.getNumClasses(), the labels that hold exemplars.
GetNumClasses == Cardinality({c \in ClassIds : store[c] # <<>>})

\* The state of the TransferLearner after its first render and effects
\* (lines 455-468 and 526-529).
InitLearner ==
  /\ tlMounted = TRUE
  /\ net = FALSE
  /\ classifier = FALSE
  /\ classes = DeclaredAtMount
  /\ store = EmptyStore
  /\ result = "null"
  /\ viewMode = "train"
  /\ isTraining = FALSE
  /\ trainingTimeouts = 0
  /\ tlWebcamReady = FALSE
  /\ tlRequestRef = 1
  /\ tlFrames = <<PredictOf(FALSE, FALSE)>>
  /\ tlInflight = <<>>
  /\ lastCycle = NoCycle
  /\ lastAdd = NoAdd
  /\ tlEvent = "none"

\* The other tab of App.jsx is shown: no TransferLearner is mounted.
NoLearner ==
  /\ tlMounted = FALSE
  /\ net = FALSE
  /\ classifier = FALSE
  /\ classes = DeclaredAtMount
  /\ store = EmptyStore
  /\ result = "null"
  /\ viewMode = "train"
  /\ isTraining = FALSE
  /\ trainingTimeouts = 0
  /\ tlWebcamReady = FALSE
  /\ tlRequestRef = 0
  /\ tlFrames = <<>>
  /\ tlInflight = <<>>
  /\ lastCycle = NoCycle
  /\ lastAdd = NoAdd
  /\ tlEvent = "none"

\* Line 528 without the cancellation: the effect has no cleanup.
TlCancelledFramesNone == tlFrames

\* Line 528, the cleanup: cancelAnimationFrame(requestRef.current).
TlCancelledFrames ==
  IF tlRequestRef = 0 THEN tlFrames ELSE RemoveAt(tlFrames, tlRequestRef)

\* Lines 471-482: mobilenet is loaded and the classifier created; the three
\* setters re-render once and the effect of lines 526-529 runs again with
\* the new predict.
InitModels ==
  /\ tlMounted /\ ~net
  /\ net' = TRUE
  /\ classifier' = TRUE
  /\ tlFrames' = Append(TlCancelledFrames, PredictOf(TRUE, TRUE))
  /\ tlRequestRef' = Len(TlCancelledFrames) + 1
  /\ tlEvent' = "init"
  /\ UNCHANGED <<detectorVars, overlayVars, tlMounted, classes, store, result,
                 viewMode, isTraining, trainingTimeouts, tlWebcamReady,
                 tlInflight, lastCycle, lastAdd>>

\* Line 509 without `classifier.getNumClasses() > 0'.
CanPredictAnyStore(c) == c.classifier /\ c.net /\ tlWebcamReady

\* Line 509: the condition under which predict captures a frame.
CanPredict(c) == c.classifier /\ c.net /\ tlWebcamReady /\ GetNumClasses > 0

\* Lines 508-514 and 523: the oldest pending predict callback runs up to its
\* await, its throw or its end.  how: "issued" (predictClass is called),
\* "captureFailed" (tf.browser.fromPixels throws) or "embedFailed"
\* (net.infer throws); a throw ends predict before line 523.
PredictTick(how) ==
  LET c == Head(tlFrames)
      pending == Tail(tlFrames)
  IN
  /\ tlFrames # <<>>
  /\ IF CanPredict(c)
     THEN /\ tlFrames' = pending
          /\ tlRequestRef' = Max(tlRequestRef - 1, 0)
          /\ tlEvent' = how
          /\ IF how = "issued"
             THEN /\ tlInflight' = Append(tlInflight, [cb |-> c, img |-> 0, activation |-> 0])
                  /\ UNCHANGED lastCycle
             ELSE /\ lastCycle' =
                       [outcome |-> how,
                        img |-> IF how = "embedFailed" THEN 0 ELSE NotAcquired,
                        activation |-> NotAcquired]
                  /\ UNCHANGED tlInflight
     ELSE /\ how = "issued"
          /\ tlFrames' = Append(pending, c)
          /\ tlRequestRef' = Len(tlFrames)
          /\ tlEvent' = "skipped"
          /\ UNCHANGED <<tlInflight, lastCycle>>
  /\ UNCHANGED <<detectorVars, overlayVars, tlMounted, net, classifier, classes,
                 store, result, viewMode, isTraining, trainingTimeouts,
                 tlWebcamReady, lastAdd>>

\* Lines 514-523 with a catch block that resets the classifier
\* (classifier.clearAllClasses()) when predictClass fails.
PredictCompleteResetting(i, ok) ==
  LET r == tlInflight[i] IN
  /\ tlInflight' = RemoveAt(tlInflight, i)
  /\ result' = IF ok /\ tlMounted THEN "prediction" ELSE result
  /\ store' = IF ok THEN store ELSE EmptyStore
  /\ lastCycle' = [outcome |-> IF ok THEN "resolved" ELSE "rejected",
                   img |-> r.img + 1, activation |-> r.activation + 1]
  /\ tlFrames' = Append(tlFrames, r.cb)
  /\ tlRequestRef' = Len(tlFrames) + 1
  /\ tlEvent' = IF ok THEN "resolved" ELSE "rejected"
  /\ UNCHANGED <<detectorVars, overlayVars, tlMounted, net, classifier, classes,
                 viewMode, isTraining, trainingTimeouts, tlWebcamReady,
                 lastAdd>>

\* Lines 514-523 after the await: the predictClass call of tlInflight[i]
\* resolves (ok) or rejects.  setResult on an unmounted component does
\* nothing.
PredictComplete(i, ok) ==
  LET r == tlInflight[i] IN
  /\ tlInflight' = RemoveAt(tlInflight, i)
  /\ result' = IF ok /\ tlMounted THEN "prediction" ELSE result
  /\ lastCycle' = [outcome |-> IF ok THEN "resolved" ELSE "rejected",
                   img |-> r.img + 1, activation |-> r.activation + 1]
  /\ tlFrames' = Append(tlFrames, r.cb)
  /\ tlRequestRef' = Len(tlFrames) + 1
  /\ tlEvent' = IF ok THEN "resolved" ELSE "rejected"
  /\ UNCHANGED <<detectorVars, overlayVars, tlMounted, net, classifier, classes,
                 store, viewMode, isTraining, trainingTimeouts, tlWebcamReady,
                 lastAdd>>

PredictResolve == \E i \in 1..Len(tlInflight) : PredictComplete(i, TRUE)

PredictReject == \E i \in 1..Len(tlInflight) : PredictComplete(i, FALSE)

\* Line 726: each "Train" button passes the id of its class.
DeclaredIds == {classes[k].id : k \in 1..Len(classes)}

\* Lines 492-494: the count of every class whose id is classId goes up by one.
CountExample(classId) ==
  [k \in 1..Len(classes) |->
     IF classes[k].id = classId
     THEN [classes[k] EXCEPT !.count = @ + 1]
     ELSE classes[k]]

\* Lines 485-505 with `activation.dispose()' after `img.dispose()'.
AddExampleDisposing(classId, ok) ==
  /\ tlMounted /\ viewMode = "train"
  /\ classId \in DeclaredIds
  /\ net /\ classifier /\ tlWebcamReady
  /\ NumExamples < MaxExamples
  /\ trainingTimeouts < MaxExamples
  /\ IF ok
     THEN /\ store' = [store EXCEPT ![classId] = Append(@, 1)]
          /\ classes' = CountExample(classId)
          /\ isTraining' = TRUE
          /\ trainingTimeouts' = trainingTimeouts + 1
          /\ lastAdd' = [stored |-> TRUE, img |-> 1, activation |-> 1]
          /\ tlEvent' = "addExample"
     ELSE /\ lastAdd' = [stored |-> FALSE, img |-> 0, activation |-> NotAcquired]
          /\ tlEvent' = "addFailed"
          /\ UNCHANGED <<store, classes, isTraining, trainingTimeouts>>
  /\ UNCHANGED <<detectorVars, overlayVars, tlMounted, net, classifier, result,
                 viewMode, tlWebcamReady, tlRequestRef, tlFrames, tlInflight,
                 lastCycle>>

\* Lines 485-505: the "Train" button of class classId, shown in the train
\* view (line 674).  ok: net.infer returns; otherwise it throws and the
\* handler ends at line 488.
AddExample(classId, ok) ==
  /\ tlMounted /\ viewMode = "train"
  /\ classId \in DeclaredIds
  /\ net /\ classifier /\ tlWebcamReady
  /\ NumExamples < MaxExamples
  /\ trainingTimeouts < MaxExamples
  /\ IF ok
     THEN /\ store' = [store EXCEPT ![classId] = Append(@, 0)]
          /\ classes' = CountExample(classId)
          /\ isTraining' = TRUE
          /\ trainingTimeouts' = trainingTimeouts + 1
          /\ lastAdd' = [stored |-> TRUE, img |-> 1, activation |-> 0]
          /\ tlEvent' = "addExample"
     ELSE /\ lastAdd' = [stored |-> FALSE, img |-> 0, activation |-> NotAcquired]
          /\ tlEvent' = "addFailed"
          /\ UNCHANGED <<store, classes, isTraining, trainingTimeouts>>
  /\ UNCHANGED <<detectorVars, overlayVars, tlMounted, net, classifier, result,
                 viewMode, tlWebcamReady, tlRequestRef, tlFrames, tlInflight,
                 lastCycle>>

\* Line 503: a timeout of an addExample fires, 200 ms after it.
TrainingTimeout ==
  /\ trainingTimeouts > 0
  /\ trainingTimeouts' = trainingTimeouts - 1
  /\ isTraining' = IF tlMounted THEN FALSE ELSE isTraining
  /\ UNCHANGED <<detectorVars, overlayVars, tlMounted, net, classifier, classes,
                 store, result, viewMode, tlWebcamReady, tlRequestRef, tlFrames,
                 tlInflight, lastCycle, lastAdd, tlEvent>>

\* Lines 532-538 clearing one class only (classifier.clearClass(0) and the
\* count of class 0).
ClearFirstClass ==
  /\ tlMounted /\ viewMode = "train"
  /\ classifier
  /\ store' = [store EXCEPT ![0] = <<>>]
  /\ classes' = [classes EXCEPT ![1].count = 0]
  /\ result' = "null"
  /\ tlEvent' = "clearAll"
  /\ UNCHANGED <<detectorVars, overlayVars, tlMounted, net, classifier, viewMode,
                 isTraining, trainingTimeouts, tlWebcamReady, tlRequestRef,
                 tlFrames, tlInflight, lastCycle, lastAdd>>

\* Lines 532-538: the "Reset" button of the train view (line 689).
ClearAll ==
  /\ tlMounted /\ viewMode = "train"
  /\ classifier
  /\ store' = EmptyStore
  /\ classes' = [k \in 1..Len(classes) |-> [classes[k] EXCEPT !.count = 0]]
  /\ result' = "null"
  /\ tlEvent' = "clearAll"
  /\ UNCHANGED <<detectorVars, overlayVars, tlMounted, net, classifier, viewMode,
                 isTraining, trainingTimeouts, tlWebcamReady, tlRequestRef,
                 tlFrames, tlInflight, lastCycle, lastAdd>>

\* Line 542 giving the new class the id of the last declared one
\* (classes.length - 1).
NewClassReusingId == [id |-> Len(classes) - 1, count |-> 0]

\* Lines 542-550: the class "Add New Class" declares.
NewClass == [id |-> Len(classes), count |-> 0]

\* Lines 541-551: the "Add New Class" button of the train view (line 741).
AddClass ==
  /\ tlMounted /\ viewMode = "train"
  /\ Len(classes) < MaxClasses
  /\ classes' = Append(classes, NewClass)
  /\ tlEvent' = "addClass"
  /\ UNCHANGED <<detectorVars, overlayVars, tlMounted, net, classifier, store,
                 result, viewMode, isTraining, trainingTimeouts, tlWebcamReady,
                 tlRequestRef, tlFrames, tlInflight, lastCycle, lastAdd>>

\* Lines 591, 627 and 683: the buttons that change the view.
SetViewMode(v) ==
  /\ tlMounted /\ v # viewMode
  /\ viewMode' = v
  /\ UNCHANGED <<detectorVars, overlayVars, tlMounted, net, classifier, classes,
                 store, result, isTraining, trainingTimeouts, tlWebcamReady,
                 tlRequestRef, tlFrames, tlInflight, lastCycle, lastAdd, tlEvent>>

\* Line 486: the webcam video reaches readyState 4.
TlWebcamReady ==
  /\ tlMounted /\ ~tlWebcamReady
  /\ tlWebcamReady' = TRUE
  /\ UNCHANGED <<detectorVars, overlayVars, tlMounted, net, classifier, classes,
                 store, result, viewMode, isTraining, trainingTimeouts,
                 tlRequestRef, tlFrames, tlInflight, lastCycle, lastAdd, tlEvent>>

\* App.jsx lines 52-72: the tab is left: the cleanup of line 528 runs and
\* webcamRef.current becomes null.
TlUnmount ==
  /\ tlMounted
  /\ tlMounted' = FALSE
  /\ tlFrames' = TlCancelledFrames
  /\ tlRequestRef' = 0
  /\ tlWebcamReady' = FALSE
  /\ tlEvent' = "unmount"
  /\ UNCHANGED <<detectorVars, overlayVars, net, classifier, classes, store,
                 result, viewMode, isTraining, trainingTimeouts, tlInflight,
                 lastCycle, lastAdd>>

(* ----------------------------- specifications ---------------------------- *)

\* The other tab of App.jsx is shown: no ObjectDetector is mounted.
NoDetector ==
  /\ mounted = FALSE
  /\ model = FALSE
  /\ mode = "live"
  /\ mediaFile = "none"
  /\ predictions = <<>>
  /\ fps = 0
  /\ isPaused = FALSE
  /\ settings = 50
  /\ webcamReady = FALSE
  /\ mediaPaused = TRUE
  /\ mediaReady = FALSE
  /\ frames = <<>>
  /\ requestRef = 0
  /\ running = <<>>
  /\ timeouts = <<>>
  /\ inflight = <<>>
  /\ timeSinceLastFrame = 0
  /\ timeSinceLastFps = 0
  /\ frameCount = 0
  /\ timeSinceLastIssue = -1
  /\ imageInferred = FALSE
  /\ lastEvent = "none"
  /\ lastResolved = NoneResolved

\* The detection loop of a mounted ObjectDetector.
Init == InitDetector /\ NoOverlay /\ NoLearner

\* The steps by which time advances between two events: in Spec one window
\* of the throughput measurement, in SpecPace one minimum frame interval.
CoarseSteps == {FpsWindowMs}
FineSteps == {FrameIntervalMs}

Next ==
  \/ BeginFrame
  \/ Tick
  \/ Timeout
  \/ Resolve
  \/ Reject
  \/ TogglePause
  \/ ToggleMode
  \/ \E t \in {"image", "video"} : OnDrop(t)
  \/ ClearMedia
  \/ \E v \in Confidences : SetMinConfidence(v)
  \/ LoadModel
  \/ Unmount
  \/ WebcamReady
  \/ MediaLoaded
  \/ MediaPlay
  \/ MediaPause
  \/ \E d \in CoarseSteps : Advance(d)

\* Every interleaving of the handlers, the callbacks and the environment.
Spec == Init /\ [][Next]_vars

\* The same, where every pending animation frame is eventually run, every
\* model.detect eventually settles and time passes.  Timers and the clock
\* are stopped only while a batch of callbacks runs, which ends: they get
\* strong fairness.
FairSpec ==
  /\ Spec
  /\ WF_vars(BeginFrame)
  /\ WF_vars(Tick)
  /\ SF_vars(Timeout)
  /\ WF_vars(Resolve \/ Reject)
  /\ SF_vars(\E d \in CoarseSteps : Advance(d))

\* The live loop alone, on a time scale of one frame interval.
NextPace ==
  \/ BeginFrame
  \/ Tick
  \/ Resolve
  \/ Reject
  \/ LoadModel
  \/ WebcamReady
  \/ \E d \in FineSteps : Advance(d)

SpecPace == Init /\ [][NextPace]_vars

\* Every interleaving at the settings of the first render: the sliders are
\* not moved, every other handler, callback and event is taken.
NextFixedSettings ==
  \/ BeginFrame
  \/ Tick
  \/ Timeout
  \/ Resolve
  \/ Reject
  \/ TogglePause
  \/ ToggleMode
  \/ \E t \in {"image", "video"} : OnDrop(t)
  \/ ClearMedia
  \/ LoadModel
  \/ Unmount
  \/ WebcamReady
  \/ MediaLoaded
  \/ MediaPlay
  \/ MediaPause
  \/ \E d \in CoarseSteps : Advance(d)

SpecFixedSettings == Init /\ [][NextFixedSettings]_vars

\* Every interleaving of a detector that stays mounted and whose webcam never
\* delivers a frame (no camera, or the permission is denied): inferences run on
\* uploaded media only; every handler, the sliders included, is taken.
NextUploads ==
  \/ BeginFrame
  \/ Tick
  \/ Timeout
  \/ Resolve
  \/ Reject
  \/ TogglePause
  \/ ToggleMode
  \/ \E t \in {"image", "video"} : OnDrop(t)
  \/ ClearMedia
  \/ \E v \in Confidences : SetMinConfidence(v)
  \/ LoadModel
  \/ MediaLoaded
  \/ MediaPlay
  \/ MediaPause
  \/ \E d \in CoarseSteps : Advance(d)

SpecUploads == Init /\ [][NextUploads]_vars

\* The overlay of a mounted ObjectDetector, for every detection list and
\* every element and layout; at the first render the refs are still null.
InitOverlay ==
  /\ InitDetector
  /\ NoOverlay
  /\ NoLearner

NextOverlay ==
  \/ \E e \in Elements : Layout(e)
  \/ \E ps \in BoxLists : SetPredictions(ps)
  \/ Rerender

SpecOverlay == InitOverlay /\ [][NextOverlay]_vars

\* A mounted TransferLearner.
InitTransferLearner == NoDetector /\ NoOverlay /\ InitLearner

NextLearner ==
  \/ InitModels
  \/ \E how \in {"issued", "captureFailed", "embedFailed"} : PredictTick(how)
  \/ PredictResolve
  \/ PredictReject
  \/ \E classId \in ClassIds, ok \in BOOLEAN : AddExample(classId, ok)
  \/ TrainingTimeout
  \/ ClearAll
  \/ AddClass
  \/ \E v \in ViewModes : SetViewMode(v)
  \/ TlWebcamReady
  \/ TlUnmount

SpecLearner == InitTransferLearner /\ [][NextLearner]_vars

TypeOK ==
  /\ mounted \in BOOLEAN /\ model \in BOOLEAN /\ isPaused \in BOOLEAN
  /\ mode \in Modes /\ mediaFile \in MediaTypes /\ settings \in Confidences
  /\ predictions \in Detections
  /\ requestRef \in 0..Len(frames)
  /\ \A j \in 1..Len(frames) : frames[j] \in Closures
  /\ LoopCount <= MaxLoops + 1

(* --------------------------------- claims -------------------------------- *)

\* A model.detect call is issued in this step.
Issued == Len(inflight') > Len(inflight)

\* inflight[i] resolves in this step.
Resolved(i) ==
  /\ i \in 1..Len(inflight)
  /\ Len(inflight') = Len(inflight) - 1
  /\ lastEvent' = "resolved"
  /\ \A j \in 1..Len(inflight') :
       inflight'[j].cb = (IF j < i THEN inflight[j] ELSE inflight[j + 1]).cb
  /\ \A j \in 1..Len(inflight') : j < i => inflight'[j].overtaken

\* inflight[i] rejects in this step.
Rejected(i) ==
  /\ i \in 1..Len(inflight)
  /\ lastEvent' = "rejected"
  /\ inflight' = RemoveAt(inflight, i)

\* The current source is usable under the selection policy of lines 60-68.
SourceUsable ==
  /\ mounted
  /\ \/ mode = "live" /\ webcamReady
     \/ mode = "upload" /\ mediaFile = "video" /\ ~mediaPaused /\ mediaReady

\* C1: at most one model.detect call is outstanding at any time.
NonOverlap == Len(inflight) <= 1

\* C2: an inference issued before a source switch and resolving after it
\* does not change predictions.
SwitchDiscardsStale ==
  [][\A i \in 1..Len(inflight) :
       (Resolved(i) /\ inflight[i].preSwitch) => predictions' = predictions]_vars

\* C3: while the detector stays paused no animation frame is requested and
\* no model.detect call is issued.
PauseStopsLoop ==
  [][(mounted' /\ isPaused') =>
       (Len(frames') <= Len(frames) /\ ~Issued)]_vars

\* C4: two model.detect calls are never issued less than 1000/R ms apart,
\* R = 24.
FrameCapHolds ==
  [][(Issued /\ timeSinceLastIssue >= 0) =>
       FrameCapHz * timeSinceLastIssue >= MsPerSecond]_vars

\* C5: after unmount no animation-frame or timeout callback is pending and
\* no model.detect is issued.
UnmountCancelsAll ==
  [][~mounted' =>
       (frames' = <<>> /\ running' = <<>> /\ timeouts' = <<>> /\ ~Issued)]_vars

\* C6: at most one model.detect call is made on a mounted image until the
\* source changes.
OneInferencePerImage ==
  [][(Issued /\ inflight'[Len(inflight')].videoEl = "image") => ~imageInferred]_vars

\* C7: results are applied in the order their requests were issued: the
\* result of a request is not applied once the result of a request issued
\* later has been.
AppliedInIssueOrder ==
  [][\A i \in 1..Len(inflight) :
       (Resolved(i) /\ mounted) => ~inflight[i].overtaken]_vars

\* C8: a rejected model.detect of a callback in live or upload-video mode is
\* caught and the callback requests the next frame; and after a rejection,
\* unless the detector is paused or the source not usable, a further
\* model.detect call is issued.
ErrorKeepsLoop ==
  /\ [][\A i \in 1..Len(inflight) :
          (Rejected(i) /\ Rearms(inflight[i].cb)) =>
            (frames' = Append(frames, inflight[i].cb) /\ requestRef' = Len(frames'))]_vars
  /\ (lastEvent = "rejected") ~>
        (lastEvent = "issued" \/ isPaused \/ ~SourceUsable)

\* C9: after a failed model.detect the detection state is the empty list.
FailureClearsPredictions == (lastEvent = "rejected") => predictions = <<>>

\* C10: the throughput counter is incremented only when a model.detect call
\* completes.
ThroughputCountsCompletions ==
  [][frameCount' > frameCount => Len(inflight') < Len(inflight)]_vars

\* C11: every value emitted as the observed rate is at most the cap R = 24.
EmittedRateWithinCap == fps <= FrameCapHz

(* --------------------------- claims: the overlay ------------------------- *)

\* The boxes of the last render and the container they were computed for.
Drawn == {i \in 1..Len(rendered.boxes) : rendered.boxes[i].mapped}
BoxAt(i) == rendered.boxes[i]
ContainerWidth == rendered.element.clientWidth
ContainerHeight == rendered.element.clientHeight

\* C12 as stated: every box of a render lies between the margins of the
\* container: MARGIN <= left and left + width <= containerWidth - MARGIN, and
\* the same for top and height.
ClampedInsideContainer ==
  \A i \in Drawn :
    /\ MARGIN * BoxAt(i).den <= BoxAt(i).left
    /\ BoxAt(i).left + BoxAt(i).width <= (ContainerWidth - MARGIN) * BoxAt(i).den
    /\ MARGIN * BoxAt(i).den <= BoxAt(i).top
    /\ BoxAt(i).top + BoxAt(i).height <= (ContainerHeight - MARGIN) * BoxAt(i).den

\* C12 amended: MARGIN <= left and MARGIN <= top for every box, and a box
\* whose scaled width (height) is at most the container's width (height)
\* less the two margins ends at or before the far margin.
ClampedWhenItFits ==
  \A i \in Drawn :
    /\ MARGIN * BoxAt(i).den <= BoxAt(i).left
    /\ MARGIN * BoxAt(i).den <= BoxAt(i).top
    /\ BoxAt(i).width <= (ContainerWidth - 2 * MARGIN) * BoxAt(i).den
         => BoxAt(i).left + BoxAt(i).width <= (ContainerWidth - MARGIN) * BoxAt(i).den
    /\ BoxAt(i).height <= (ContainerHeight - 2 * MARGIN) * BoxAt(i).den
         => BoxAt(i).top + BoxAt(i).height <= (ContainerHeight - MARGIN) * BoxAt(i).den

\* C12 witness: a box that fits was moved left to end at the far margin and
\* moved down to the near margin.
ClampedWhenItFitsWitness ==
  \E i \in Drawn :
    /\ BoxAt(i).width <= (ContainerWidth - 2 * MARGIN) * BoxAt(i).den
    /\ BoxAt(i).left + BoxAt(i).width = (ContainerWidth - MARGIN) * BoxAt(i).den
    /\ BoxAt(i).left < predictions[i].bbox[1] * BoxAt(i).scale + BoxAt(i).offsetX
    /\ BoxAt(i).top = MARGIN * BoxAt(i).den
    /\ BoxAt(i).top > predictions[i].bbox[2] * BoxAt(i).scale + BoxAt(i).offsetY

\* The value the spec's clamp(x, lo, hi) names when lo <= hi.
ClampTo(x, lo, hi) == IF x < lo THEN lo ELSE IF x > hi THEN hi ELSE x

\* The seven steps of the cover-fit algorithm, as relations between the
\* fields of box d, computed for bbox b in a container cw x ch over a source
\* vw x vh (lengths of d in units of 1/d.den px).
CoverFit(d, b, vw, vh, cw, ch) ==
  LET m == MARGIN * d.den IN
  /\ d.scale * vw >= cw * d.den /\ d.scale * vh >= ch * d.den
  /\ d.scale * vw = cw * d.den \/ d.scale * vh = ch * d.den
  /\ d.displayedWidth = vw * d.scale /\ d.displayedHeight = vh * d.scale
  /\ 2 * d.offsetX = cw * d.den - d.displayedWidth
  /\ 2 * d.offsetY = ch * d.den - d.displayedHeight
  /\ d.width = b[3] * d.scale /\ d.height = b[4] * d.scale
  /\ m <= cw * d.den - d.width - m
       => d.left = ClampTo(b[1] * d.scale + d.offsetX, m, cw * d.den - d.width - m)
  /\ m <= ch * d.den - d.height - m
       => d.top = ClampTo(b[2] * d.scale + d.offsetY, m, ch * d.den - d.height - m)
  /\ d.maxWidth = cw * d.den - d.left - m
  /\ d.maxHeight = ch * d.den - d.top - m
  /\ d.isNearTop <=> ~(d.top >= NearTopPx * d.den)

\* The example of the spec: source 640x480 in container 800x450, box
\* (100,100,50,50).
ExampleElement == Attached(<<640, 480>>, <<800, 450>>)
ExampleBox == <<100, 100, 50, 50>>
ExampleMapped(d) ==
  /\ 4 * d.scale = 5 * d.den
  /\ d.displayedWidth = 800 * d.den /\ d.displayedHeight = 600 * d.den
  /\ d.offsetX = 0 /\ d.offsetY = -75 * d.den
  /\ d.left = 125 * d.den /\ d.top = 50 * d.den
  /\ 2 * d.width = 125 * d.den /\ 2 * d.height = 125 * d.den
  /\ d.maxWidth = 665 * d.den /\ d.maxHeight = 390 * d.den
  /\ ~d.isNearTop

\* C13: the example of the spec is mapped to scale 1.25, displayed size
\* 800x600, offsets 0 and -75, left 125, top 50, width = height = 62.5,
\* maxWidth 665, maxHeight 390, label above; and every box of a render
\* satisfies the seven steps of the cover-fit algorithm.
CoverFitMapping ==
  \A i \in Drawn :
    /\ CoverFit(BoxAt(i), predictions[i].bbox,
                rendered.element.videoWidth, rendered.element.videoHeight,
                ContainerWidth, ContainerHeight)
    /\ (rendered.element = ExampleElement /\ predictions[i].bbox = ExampleBox)
         => ExampleMapped(BoxAt(i))

\* C13 witness: the example of the spec has been rendered.
CoverFitMappingWitness ==
  \E i \in Drawn :
    /\ rendered.element = ExampleElement
    /\ predictions[i].bbox = ExampleBox
    /\ BoxAt(i).left = 125 * BoxAt(i).den

\* C14: no box is drawn from an element that is missing, has no parent, or
\* whose natural size or whose parent's client size has a zero dimension.
UnmappableWithoutDimensions ==
  (\/ ~rendered.element.present
   \/ ~rendered.element.hasContainer
   \/ rendered.element.videoWidth = 0 \/ rendered.element.videoHeight = 0
   \/ ContainerWidth = 0 \/ ContainerHeight = 0)
    => Drawn = {}

(* ----------------------- claims: the TransferLearner --------------------- *)

\* A predict callback runs in this step.
PredictTicks == \E how \in {"issued", "captureFailed", "embedFailed"} : PredictTick(how)

\* C15: while the store holds no exemplar, as after clearAll and until an
\* example is added again, result is null.
ClearAllEmptiesResult == NumExamples = 0 => result = "null"

\* C16: a predict callback that runs while the store holds no exemplar
\* queries nothing and acquires nothing, leaves result as it is, ends without
\* an error and requests the next frame.
EmptyStoreSkipsCycle ==
  [][(PredictTicks /\ NumExamples = 0) =>
       /\ tlInflight' = tlInflight
       /\ lastCycle' = lastCycle
       /\ result' = result
       /\ tlEvent' = "skipped"
       /\ tlFrames' = Append(Tail(tlFrames), Head(tlFrames))
       /\ tlRequestRef' = Len(tlFrames')]_vars

\* C16 witness: a callback with the models loaded and the webcam ready has
\* skipped its cycle on the empty store.
EmptyStoreSkipsCycleWitness ==
  /\ tlEvent = "skipped"
  /\ net /\ classifier /\ tlWebcamReady
  /\ NumExamples = 0 /\ result = "null"
  /\ tlFrames # <<>> /\ tlFrames[Len(tlFrames)] = PredictOf(TRUE, TRUE)

\* C17: a step of a prediction cycle leaves the exemplar lists and the
\* displayed counts unchanged, and the exemplar lists change only in
\* addExample and clearAll.
PredictionOnlyReads ==
  [][/\ (PredictTicks \/ PredictResolve \/ PredictReject)
          => (store' = store /\ classes' = classes)
     /\ store' # store
          => \/ \E classId \in ClassIds : AddExample(classId, TRUE)
             \/ ClearAll]_vars

\* C17 witness: a prediction cycle has run to its end on a store that holds
\* exemplars.
PredictionOnlyReadsWitness ==
  /\ lastCycle.outcome \in {"resolved", "rejected"}
  /\ tlEvent \in {"resolved", "rejected"}
  /\ NumExamples > 0
  /\ \E k \in 1..Len(classes) : classes[k].count > 0

\* C18: the tensors a prediction cycle acquired are each released exactly
\* once when the cycle has ended, however it ended.
TransientsReleasedOnce ==
  lastCycle.outcome # "none" =>
    /\ lastCycle.img \in {NotAcquired, 1}
    /\ lastCycle.activation \in {NotAcquired, 1}

\* C19: an addExample that passed its feature vector to the store released
\* its frame tensor once and the vector not at all, and no vector the store
\* holds has been released.
OwnershipMovesToStore ==
  /\ lastAdd.stored => (lastAdd.img = 1 /\ lastAdd.activation = 0)
  /\ \A c \in ClassIds : \A k \in 1..Len(store[c]) : store[c][k] = 0

\* C19 witness: the store holds a vector added by addExample, and a
\* prediction cycle has run to its end after it.
OwnershipMovesToStoreWitness ==
  /\ lastAdd.stored
  /\ NumExamples > 0
  /\ tlEvent = "resolved"
  /\ lastCycle.activation = 1

\* C20: a step in which the exemplar list or the displayed count of some
\* class shrinks is a clearAll, and it leaves every exemplar list empty and
\* every displayed count 0.
ClearAllIsAtomic ==
  [][(\E c \in ClassIds :
        \/ Len(store'[c]) < Len(store[c])
        \/ c < Len(classes) /\ classes'[c + 1].count < classes[c + 1].count)
       => /\ tlEvent' = "clearAll"
          /\ store' = EmptyStore
          /\ Len(classes') = Len(classes)
          /\ \A k \in 1..Len(classes') : classes'[k].count = 0]_vars

\* C20 witness: clearAll has run after examples were added, and nothing is
\* left.
ClearAllIsAtomicWitness ==
  /\ tlEvent = "clearAll"
  /\ lastAdd.stored
  /\ NumExamples = 0
  /\ \A k \in 1..Len(classes) : classes[k].count = 0

\* C23: a prediction cycle that failed (frame capture, embedding or
\* predictClass) has requested the next frame: while the TransferLearner is
\* mounted and the failure is the last thing its loop did, a callback is
\* pending.
FailureKeepsPredictLoop ==
  (tlMounted /\ tlEvent \in {"captureFailed", "embedFailed", "rejected"})
    => tlFrames # <<>>

\* C24: at most one predictClass call is outstanding and at most one
\* animation-frame callback of predict is pending.
SinglePredictLoop == Len(tlInflight) <= 1 /\ Len(tlFrames) <= 1

\* C24 witness: a predictClass call is outstanding after the models were
\* initialised and an example was added.
SinglePredictLoopWitness ==
  /\ Len(tlInflight) = 1
  /\ tlFrames = <<>>
  /\ tlEvent = "issued"
  /\ lastAdd.stored

\* C29: the declared class ids are 0..n-1 in list order, the displayed
\* count of every declared class is the number of exemplars the store holds
\* under its id, and every exemplar of the store is under a declared id.
DeclaredClassesMatchStore ==
  /\ \A k \in 1..Len(classes) :
       /\ classes[k].id = k - 1
       /\ classes[k].count = Len(store[classes[k].id])
  /\ \A c \in ClassIds : store[c] # <<>> => c \in DeclaredIds

\* C29 witness: addExample has just stored an exemplar, a class declared by
\* addClass holds one and the first class declared at mount holds one.
DeclaredClassesMatchStoreWitness ==
  /\ Len(classes) > InitialClasses
  /\ store[Len(classes) - 1] # <<>>
  /\ store[0] # <<>>
  /\ tlEvent = "addExample"

\* C28: the caps of every box of a render are maxWidth = containerWidth -
\* left - MARGIN and maxHeight = containerHeight - top - MARGIN, and in a
\* container of at least 2 * MARGIN in each dimension they are not negative
\* and the box limited by them ends at or before the far margins.
CapsEndAtFarMargin ==
  \A i \in Drawn :
    LET d == BoxAt(i)
        m == MARGIN * d.den
    IN /\ d.maxWidth = ContainerWidth * d.den - d.left - m
       /\ d.maxHeight = ContainerHeight * d.den - d.top - m
       /\ (ContainerWidth >= 2 * MARGIN /\ ContainerHeight >= 2 * MARGIN)
            => /\ d.maxWidth >= 0
               /\ d.maxHeight >= 0
               /\ d.left + Min(d.width, d.maxWidth) <= ContainerWidth * d.den - m
               /\ d.top + Min(d.height, d.maxHeight) <= ContainerHeight * d.den - m

\* C28 witness: in a container larger than the two margins a box wider and
\* higher than its caps is limited by them.
CapsEndAtFarMarginWitness ==
  \E i \in Drawn :
    /\ ContainerWidth >= 2 * MARGIN /\ ContainerHeight >= 2 * MARGIN
    /\ BoxAt(i).maxWidth < BoxAt(i).width
    /\ BoxAt(i).maxHeight < BoxAt(i).height
    /\ BoxAt(i).left + BoxAt(i).maxWidth = (ContainerWidth - MARGIN) * BoxAt(i).den

\* A pending callback is taken to run in this step: the next one of the
\* frame's batch, or the oldest timeout.
Runs(c) ==
  \/ running # <<>> /\ running' = Tail(running) /\ c = Head(running)
  \/ /\ timeouts # <<>> /\ timeouts' = Tail(timeouts) /\ running' = running
     /\ c = Head(timeouts).cb

\* The callbacks that can be taken to run next.
NextToRun ==
  (IF running # <<>> THEN {Head(running)} ELSE {})
    \cup (IF timeouts # <<>> THEN {Head(timeouts).cb} ELSE {})

\* Callback c gets to the check of line 52 (it is past line 47) less than
\* the frame interval after lastFrameTime.
ArrivesEarly(c) ==
  ~c.isPaused /\ c.model /\ timeSinceLastFrame < FrameIntervalMs

DetectOnUsableSourceOnly ==
  [][Issued =>
       LET videoEl == inflight'[Len(inflight')].videoEl IN
       /\ videoEl = "webcam" => (WebcamVideo /\ webcamReady)
       /\ videoEl = "video" => (MediaEl = "video" /\ ~mediaPaused /\ mediaReady)]_vars

\* C27: every model.detect call is issued with the settings in effect when
\* it is issued.
DetectUsesCurrentSettings ==
  [][Issued => inflight'[Len(inflight')].cb.settings = settings]_vars

\* C30: at most one callback of the detection loop is pending (an animation
\* frame or an image timeout), and requestRef names it.
OnePendingCallbackNamed ==
  /\ Len(frames) + Len(timeouts) <= 1
  /\ timeouts = <<>>
  /\ frames # <<>> => requestRef = 1

\* C33: a step that changes the paused flag is the pause button, which
\* negates it, or the play event of the uploaded video, which sets it to
\* false; a step that changes the mode, the media file or the settings, runs
\* a callback or completes an inference leaves it unchanged.
PausedChangedByButtonOrPlay ==
  [][isPaused' # isPaused =>
       /\ mounted
       /\ mode' = mode /\ mediaFile' = mediaFile /\ settings' = settings
       /\ running' = running /\ Len(inflight') = Len(inflight)
       /\ Len(timeouts') >= Len(timeouts)
       /\ \/ mediaPaused' = mediaPaused
          \/ MediaEl = "video" /\ mediaPaused /\ ~mediaPaused' /\ ~isPaused']_vars

\* C33 witness: the detector is paused, which only the button does, while
\* the uploaded video plays, whose play event had resumed it; the mode, the
\* media file and the settings were changed and an inference has resolved.
PausedChangedByButtonOrPlayWitness ==
  /\ isPaused
  /\ MediaEl = "video" /\ ~mediaPaused
  /\ settings # 50
  /\ lastEvent = "resolved"

\* The loop is meant to run: mounted, model loaded, not paused, live mode
\* or an uploaded video.
LoopExpected ==
  /\ mounted /\ model /\ ~isPaused
  /\ mode = "live" \/ (mode = "upload" /\ mediaFile = "video")

\* C31: while the model is loaded, the detector not paused and the mode live
\* or upload-video, a callback is eventually pending (or an inference
\* awaited, which requests one when it settles); and if from some point on
\* that holds and the source stays usable, model.detect calls keep being
\* issued.
LoopNotStalled ==
  /\ LoopExpected ~>
       (frames # <<>> \/ running # <<>> \/ inflight # <<>> \/ ~LoopExpected)
  /\ <>[](LoopExpected /\ SourceUsable) => []<><<Issued>>_vars

\* C32: an inference that was in flight when the user paused and that
\* resolves while the detector is paused has its result applied to
\* predictions.
PausedResultApplied ==
  [][\A i \in 1..Len(inflight) :
       (Resolved(i) /\ inflight[i].atPause /\ isPaused /\ mounted)
         => predictions' = lastResolved'.results]_vars

\* C32 witness: the last inference that resolved was in flight when the user
\* paused, gave detections while the detector was paused, and they are the
\* predictions.
PausedResultAppliedWitness ==
  /\ mounted /\ isPaused
  /\ lastEvent = "resolved"
  /\ lastResolved.atPause
  /\ lastResolved.results # <<>>
  /\ predictions = lastResolved.results

====
